---- MODULE Spec2Model ----
(***************************************************************************)
(* Model of crates/storage/db/src/abstraction/database.rs: the Database    *)
(* trait (tx, tx_mut, view, update) and its forwarding implementations for *)
(* Arc<DB> and &DB.                                                        *)
(*                                                                         *)
(* Every caller thread holds a handle: the backend value itself, or the    *)
(* backend behind a chain of Arc / & wrappers.  A call of view or update   *)
(* walks through the lines of the method: the open (dispatched through the *)
(* wrapper impls down to the backend), the invocation of the closure, its  *)
(* return (or panic), the commit and the return of the call.               *)
(***************************************************************************)
EXTENDS Naturals, Sequences, FiniteSets, TLC

\* ------------------------------------------------------------------ bounds
MaxDepth == 2          \* deepest nesting of Arc / & around the backend
MaxCalls == 2          \* calls a thread makes one after the other

Threads == {"t1", "t2"}
Wrappers == {"Arc", "Ref"}
\* a handle: the wrappers around the backend, outermost first
Shapes == UNION {[1..n -> Wrappers] : n \in 0..MaxDepth}
\* what a closure may return; "app_err" stands for an Err(..) of the caller's own
FVals == {"v1", "app_err"}
Ops == {"view", "update", "tx", "tx_mut"}

\* ------------------------------------------------------------------ values
NoErr == [kind |-> "none", cause |-> "none"]
OpenErr(cause) == [kind |-> "open", cause |-> cause]
CommitErr(cause) == [kind |-> "commit", cause |-> cause]

NoResult == [tag |-> "none", val |-> "none", tx |-> 0, err |-> NoErr]
OkVal(v) == [tag |-> "ok", val |-> v, tx |-> 0, err |-> NoErr]
OkTx(id) == [tag |-> "ok", val |-> "none", tx |-> id, err |-> NoErr]
OkUnit == [tag |-> "ok", val |-> "none", tx |-> 0, err |-> NoErr]
Err(e) == [tag |-> "err", val |-> "none", tx |-> 0, err |-> e]

IsErr(r) == r.tag = "err"
IsOk(r) == r.tag = "ok"

\* ------------------------------------------------------------------ state
VARIABLES
    readOnly,   \* the backend was opened without write access
    handle,     \* handle[t]: the shape of the handle thread t holds
    budget,     \* budget[t]: how many calls thread t makes
    ncalls,     \* ncalls[t]: calls thread t has started
    call,       \* call[t]: the call thread t is in (or has last returned from)
    txs,        \* the transactions the backend has handed out, in opening order
    stats       \* stats[t]: backend calls made on behalf of thread t, over all calls

vars == <<readOnly, handle, budget, ncalls, call, txs, stats>>

IdleCall ==
    [op |-> "none", seq |-> 0, pc |-> "idle", stack |-> <<>>, method |-> "none",
     openRes |-> NoResult, tx |-> 0, res |-> "none", commitRes |-> NoResult,
     ret |-> NoResult, fcount |-> 0, events |-> <<>>]

NoStats == [tx |-> 0, tx_mut |-> 0, commit |-> 0, f |-> 0]

Base ==
    /\ readOnly \in BOOLEAN
    /\ ncalls = [t \in Threads |-> 0]
    /\ call = [t \in Threads |-> IdleCall]
    /\ txs = <<>>
    /\ stats = [t \in Threads |-> NoStats]

\* Either thread t2 alone makes MaxCalls calls one after the other on a handle
\* of any shape, or the two threads make one call each, concurrently, t1 on the
\* backend itself or on one wrapper around it and t2 on a handle of any shape.
Alone == [t \in Threads |-> IF t = "t2" THEN MaxCalls ELSE 0]
Both == [t \in Threads |-> 1]

Init ==
    /\ Base
    /\ handle \in [Threads -> Shapes]
    /\ budget \in {Alone, Both}
    /\ Len(handle["t1"]) <= (IF budget = Both THEN 1 ELSE 0)

\* ------------------------------------------------------- view / update code
\* faulty variant: update opens a read transaction
update_open_read == "tx"

\* line 32: `self.tx()`, line 46: `self.tx_mut()`
view_open == "tx"
update_open == "tx_mut"

\* faulty variant: the open error is replaced by a generic one on its way out
view_try_generic_error(c, r) ==
    IF IsErr(r)
        THEN [c EXCEPT !.openRes = r, !.ret = Err(OpenErr("unknown")), !.pc = "returned",
                       !.events = Append(@, "return")]
        ELSE [c EXCEPT !.openRes = r, !.tx = r.tx, !.pc = "call_f"]

\* faulty variant: the transaction is committed before the closure is called
view_try_commit_first(c, r) ==
    IF IsErr(r)
        THEN [c EXCEPT !.openRes = r, !.ret = Err(r.err), !.pc = "returned",
                       !.events = Append(@, "return")]
        ELSE [c EXCEPT !.openRes = r, !.tx = r.tx, !.pc = "commit"]

\* faulty variant: a failed open is tried once more before the error is returned
view_try_retry_once(c, r) ==
    IF IsErr(r)
        THEN IF Len(c.events) < 2
                THEN [c EXCEPT !.pc = "open"]
                ELSE [c EXCEPT !.openRes = r, !.ret = Err(r.err), !.pc = "returned",
                               !.events = Append(@, "return")]
        ELSE [c EXCEPT !.openRes = r, !.tx = r.tx, !.pc = "call_f"]

\* the `?` of line 32: an Err returns from view at once, an Ok binds tx
view_try(c, r) ==
    IF IsErr(r)
        THEN [c EXCEPT !.openRes = r, !.ret = Err(r.err), !.pc = "returned",
                       !.events = Append(@, "return")]
        ELSE [c EXCEPT !.openRes = r, !.tx = r.tx, !.pc = "call_f"]

\* faulty variant: the closure is run although the open failed
update_try_runs_f(c, r) ==
    IF IsErr(r)
        THEN [c EXCEPT !.openRes = r, !.ret = Err(r.err), !.pc = "returned",
                       !.fcount = @ + 1,
                       !.events = @ \o <<"f_call", "f_ret", "return">>]
        ELSE [c EXCEPT !.openRes = r, !.tx = r.tx, !.pc = "call_f"]

\* the `?` of line 46
update_try(c, r) ==
    IF IsErr(r)
        THEN [c EXCEPT !.openRes = r, !.ret = Err(r.err), !.pc = "returned",
                       !.events = Append(@, "return")]
        ELSE [c EXCEPT !.openRes = r, !.tx = r.tx, !.pc = "call_f"]

\* faulty variant: the closure's value travels with the commit error
view_finish_keeps_value(res, cr) ==
    IF IsErr(cr) THEN [Err(cr.err) EXCEPT !.val = res] ELSE OkVal(res)

\* lines 35-37: `tx.commit()?; Ok(res)`
view_finish(res, cr) == IF IsErr(cr) THEN Err(cr.err) ELSE OkVal(res)

\* faulty variant: a default value is returned in place of the closure's
update_finish_default(res, cr) == IF IsErr(cr) THEN Err(cr.err) ELSE OkVal("v1")

\* lines 49-51
update_finish(res, cr) == IF IsErr(cr) THEN Err(cr.err) ELSE OkVal(res)

\* tx() and tx_mut() called directly hand the backend's result to the caller
raw_return(c, r) ==
    [c EXCEPT !.openRes = r, !.ret = r, !.pc = "returned",
              !.events = Append(@, "return")]

EntryMethod(op) ==
    CASE op = "view" -> view_open
      [] op = "update" -> update_open
      [] op = "tx" -> "tx"
      [] op = "tx_mut" -> "tx_mut"

AfterOpen(c, r) ==
    CASE c.op = "view" -> view_try(c, r)
      [] c.op = "update" -> update_try(c, r)
      [] OTHER -> raw_return(c, r)

Finish(c, cr) ==
    CASE c.op = "view" -> view_finish(c.res, cr)
      [] OTHER -> update_finish(c.res, cr)

\* ------------------------------------------------------------------ actions
\* a thread calls view, update, tx or tx_mut on the handle it holds
Invoke(t, op) ==
    /\ call[t].pc \in {"idle", "returned"}
    /\ ncalls[t] < budget[t]
    /\ ncalls' = [ncalls EXCEPT ![t] = @ + 1]
    /\ call' = [call EXCEPT ![t] =
            [IdleCall EXCEPT !.op = op, !.seq = ncalls[t] + 1, !.pc = "open",
                             !.stack = handle[t], !.method = EntryMethod(op)]]
    /\ UNCHANGED <<readOnly, handle, budget, txs, stats>>

\* faulty variant: Arc's tx forwards to the inner tx_mut
ArcTx_to_tx_mut(t) ==
    /\ call[t].pc = "open" /\ call[t].method = "tx"
    /\ call[t].stack # <<>> /\ Head(call[t].stack) = "Arc"
    /\ call' = [call EXCEPT ![t].stack = Tail(@), ![t].method = "tx_mut"]
    /\ UNCHANGED <<readOnly, handle, budget, ncalls, txs, stats>>

\* impl Database for Arc<DB>: tx forwards to <DB as Database>::tx
ArcTx(t) ==
    /\ call[t].pc = "open" /\ call[t].method = "tx"
    /\ call[t].stack # <<>> /\ Head(call[t].stack) = "Arc"
    /\ call' = [call EXCEPT ![t].stack = Tail(@), ![t].method = "tx"]
    /\ UNCHANGED <<readOnly, handle, budget, ncalls, txs, stats>>

\* impl Database for Arc<DB>: tx_mut forwards to <DB as Database>::tx_mut
ArcTxMut(t) ==
    /\ call[t].pc = "open" /\ call[t].method = "tx_mut"
    /\ call[t].stack # <<>> /\ Head(call[t].stack) = "Arc"
    /\ call' = [call EXCEPT ![t].stack = Tail(@), ![t].method = "tx_mut"]
    /\ UNCHANGED <<readOnly, handle, budget, ncalls, txs, stats>>

\* impl Database for &DB: tx forwards to <DB as Database>::tx
RefTx(t) ==
    /\ call[t].pc = "open" /\ call[t].method = "tx"
    /\ call[t].stack # <<>> /\ Head(call[t].stack) = "Ref"
    /\ call' = [call EXCEPT ![t].stack = Tail(@), ![t].method = "tx"]
    /\ UNCHANGED <<readOnly, handle, budget, ncalls, txs, stats>>

\* faulty variant: the reference's tx_mut forwards to the inner tx
RefTxMut_to_tx(t) ==
    /\ call[t].pc = "open" /\ call[t].method = "tx_mut"
    /\ call[t].stack # <<>> /\ Head(call[t].stack) = "Ref"
    /\ call' = [call EXCEPT ![t].stack = Tail(@), ![t].method = "tx"]
    /\ UNCHANGED <<readOnly, handle, budget, ncalls, txs, stats>>

\* impl Database for &DB: tx_mut forwards to <DB as Database>::tx_mut
RefTxMut(t) ==
    /\ call[t].pc = "open" /\ call[t].method = "tx_mut"
    /\ call[t].stack # <<>> /\ Head(call[t].stack) = "Ref"
    /\ call' = [call EXCEPT ![t].stack = Tail(@), ![t].method = "tx_mut"]
    /\ UNCHANGED <<readOnly, handle, budget, ncalls, txs, stats>>

\* the transaction a successful open adds to the backend's table
NewTx(t, kind) ==
    [kind |-> kind, owner |-> t, seq |-> call[t].seq, via |-> call[t].op,
     state |-> "open", commits |-> 0]

\* what the backend may answer to tx(): a transaction, or an open failure
TxOutcomes == {"ok", "exhausted", "io"}

\* what the backend may answer to tx_mut(): without write access, only the
\* failure that says so
TxMutOutcomes == IF readOnly THEN {"write_access"} ELSE {"ok", "exhausted"}

\* what commit() may answer
CommitOutcomes == {"ok", "conflict", "io"}

\* the backend's tx(): the call has reached the backend itself
BaseTx(t) ==
    /\ call[t].pc = "open" /\ call[t].method = "tx" /\ call[t].stack = <<>>
    /\ \E o \in TxOutcomes :
        LET r == IF o = "ok" THEN OkTx(Len(txs) + 1) ELSE Err(OpenErr(o))
            c == [call[t] EXCEPT !.events = Append(@, "tx")]
        IN  /\ txs' = IF o = "ok" THEN Append(txs, NewTx(t, "ro")) ELSE txs
            /\ call' = [call EXCEPT ![t] = AfterOpen(c, r)]
    /\ stats' = [stats EXCEPT ![t].tx = @ + 1]
    /\ UNCHANGED <<readOnly, handle, budget, ncalls>>

\* the backend's tx_mut()
BaseTxMut(t) ==
    /\ call[t].pc = "open" /\ call[t].method = "tx_mut" /\ call[t].stack = <<>>
    /\ \E o \in TxMutOutcomes :
        LET r == IF o = "ok" THEN OkTx(Len(txs) + 1) ELSE Err(OpenErr(o))
            c == [call[t] EXCEPT !.events = Append(@, "tx_mut")]
        IN  /\ txs' = IF o = "ok" THEN Append(txs, NewTx(t, "rw")) ELSE txs
            /\ call' = [call EXCEPT ![t] = AfterOpen(c, r)]
    /\ stats' = [stats EXCEPT ![t].tx_mut = @ + 1]
    /\ UNCHANGED <<readOnly, handle, budget, ncalls>>

\* lines 34 / 48: `f(&tx)` is entered
CallF(t) ==
    /\ call[t].pc = "call_f"
    /\ call' = [call EXCEPT ![t].pc = "in_f", ![t].fcount = @ + 1,
                            ![t].events = Append(@, "f_call")]
    /\ stats' = [stats EXCEPT ![t].f = @ + 1]
    /\ UNCHANGED <<readOnly, handle, budget, ncalls, txs>>

\* the closure returns v, bound to `res`
FReturn(t, v) ==
    /\ call[t].pc = "in_f"
    /\ call' = [call EXCEPT ![t].pc = "commit", ![t].res = v,
                            ![t].events = Append(@, "f_ret")]
    /\ UNCHANGED <<readOnly, handle, budget, ncalls, txs, stats>>

\* faulty variant: a guard commits the transaction while the panic unwinds
FPanic_commits(t) ==
    /\ call[t].pc = "in_f"
    /\ call' = [call EXCEPT ![t].pc = "unwound",
                            ![t].events = @ \o <<"panic", "commit">>]
    /\ txs' = [txs EXCEPT ![call[t].tx].state = "committed",
                          ![call[t].tx].commits = @ + 1]
    /\ stats' = [stats EXCEPT ![t].commit = @ + 1]
    /\ UNCHANGED <<readOnly, handle, budget, ncalls>>

\* the closure panics: the stack unwinds through view / update, which drops tx
FPanic(t) ==
    /\ call[t].pc = "in_f"
    /\ call' = [call EXCEPT ![t].pc = "unwound", ![t].events = Append(@, "panic")]
    /\ txs' = [txs EXCEPT ![call[t].tx].state = "dropped"]
    /\ UNCHANGED <<readOnly, handle, budget, ncalls, stats>>

\* faulty variant: only a write transaction is committed, a read transaction is let go
Commit_write_only(t) ==
    /\ call[t].pc = "commit"
    /\ \E o \in CommitOutcomes :
        LET cr == IF o = "ok" \/ call[t].op = "view" THEN OkUnit ELSE Err(CommitErr(o))
            done == call[t].op # "view"
        IN  /\ txs' = IF done
                        THEN [txs EXCEPT ![call[t].tx].commits = @ + 1,
                                         ![call[t].tx].state =
                                            IF o = "ok" THEN "committed" ELSE "commit_failed"]
                        ELSE txs
            /\ call' = [call EXCEPT ![t].commitRes = cr,
                                    ![t].ret = Finish(call[t], cr),
                                    ![t].pc = "returned",
                                    ![t].events = @ \o (IF done THEN <<"commit", "return">>
                                                                ELSE <<"return">>)]
            /\ stats' = [stats EXCEPT ![t].commit = IF done THEN @ + 1 ELSE @]
    /\ UNCHANGED <<readOnly, handle, budget, ncalls>>

\* faulty variant: a thread's first call returns without committing its transaction
Commit_deferred(t) ==
    /\ call[t].pc = "commit"
    /\ \E o \in CommitOutcomes :
        LET cr == IF o = "ok" \/ call[t].seq = 1 THEN OkUnit ELSE Err(CommitErr(o))
            done == call[t].seq # 1
        IN  /\ txs' = IF done
                        THEN [txs EXCEPT ![call[t].tx].commits = @ + 1,
                                         ![call[t].tx].state =
                                            IF o = "ok" THEN "committed" ELSE "commit_failed"]
                        ELSE txs
            /\ call' = [call EXCEPT ![t].commitRes = cr,
                                    ![t].ret = Finish(call[t], cr),
                                    ![t].pc = "returned",
                                    ![t].events = @ \o (IF done THEN <<"commit", "return">>
                                                                ELSE <<"return">>)]
            /\ stats' = [stats EXCEPT ![t].commit = IF done THEN @ + 1 ELSE @]
    /\ UNCHANGED <<readOnly, handle, budget, ncalls>>

\* faulty variant: a value of the closure that denotes failure skips the commit
Commit_unless_app_err(t) ==
    /\ call[t].pc = "commit"
    /\ \E o \in CommitOutcomes :
        LET done == call[t].res # "app_err"
            cr == IF o = "ok" \/ ~done THEN OkUnit ELSE Err(CommitErr(o))
        IN  /\ txs' = IF done
                        THEN [txs EXCEPT ![call[t].tx].commits = @ + 1,
                                         ![call[t].tx].state =
                                            IF o = "ok" THEN "committed" ELSE "commit_failed"]
                        ELSE [txs EXCEPT ![call[t].tx].state = "dropped"]
            /\ call' = [call EXCEPT ![t].commitRes = cr,
                                    ![t].ret = Finish(call[t], cr),
                                    ![t].pc = "returned",
                                    ![t].events = @ \o (IF done THEN <<"commit", "return">>
                                                                ELSE <<"return">>)]
            /\ stats' = [stats EXCEPT ![t].commit = IF done THEN @ + 1 ELSE @]
    /\ UNCHANGED <<readOnly, handle, budget, ncalls>>

\* faulty variant: the commit also finalizes every other open transaction of
\* the calling thread
Commit_closes_all(t) ==
    /\ call[t].pc = "commit"
    /\ \E o \in CommitOutcomes :
        LET cr == IF o = "ok" THEN OkUnit ELSE Err(CommitErr(o))
        IN  /\ txs' = [i \in 1..Len(txs) |->
                        IF i = call[t].tx
                            THEN [txs[i] EXCEPT !.commits = @ + 1,
                                     !.state = IF o = "ok" THEN "committed"
                                                           ELSE "commit_failed"]
                        ELSE IF txs[i].owner = t /\ txs[i].state = "open"
                            THEN [txs[i] EXCEPT !.state = "dropped"]
                        ELSE txs[i]]
            /\ call' = [call EXCEPT ![t].commitRes = cr,
                                    ![t].ret = Finish(call[t], cr),
                                    ![t].pc = "returned",
                                    ![t].events = @ \o <<"commit", "return">>]
    /\ stats' = [stats EXCEPT ![t].commit = @ + 1]
    /\ UNCHANGED <<readOnly, handle, budget, ncalls>>

\* faulty variant: the commit goes to the transaction opened last on the
\* backend, whichever call opened it
Commit_latest(t) ==
    /\ call[t].pc = "commit"
    /\ \E o \in CommitOutcomes :
        LET cr == IF o = "ok" THEN OkUnit ELSE Err(CommitErr(o))
        IN  /\ txs' = [txs EXCEPT ![Len(txs)].commits = @ + 1,
                                  ![Len(txs)].state =
                                      IF o = "ok" THEN "committed" ELSE "commit_failed"]
            /\ call' = [call EXCEPT ![t].commitRes = cr,
                                    ![t].ret = Finish(call[t], cr),
                                    ![t].pc = "returned",
                                    ![t].events = @ \o <<"commit", "return">>]
    /\ stats' = [stats EXCEPT ![t].commit = @ + 1]
    /\ UNCHANGED <<readOnly, handle, budget, ncalls>>

\* lines 35-37 / 49-51: `tx.commit()?; Ok(res)`
Commit(t) ==
    /\ call[t].pc = "commit"
    /\ \E o \in CommitOutcomes :
        LET cr == IF o = "ok" THEN OkUnit ELSE Err(CommitErr(o))
        IN  /\ txs' = [txs EXCEPT ![call[t].tx].commits = @ + 1,
                                  ![call[t].tx].state =
                                      IF o = "ok" THEN "committed" ELSE "commit_failed"]
            /\ call' = [call EXCEPT ![t].commitRes = cr,
                                    ![t].ret = Finish(call[t], cr),
                                    ![t].pc = "returned",
                                    ![t].events = @ \o <<"commit", "return">>]
    /\ stats' = [stats EXCEPT ![t].commit = @ + 1]
    /\ UNCHANGED <<readOnly, handle, budget, ncalls>>

\* a caller that opened a transaction with tx() / tx_mut() commits it itself
ClientCommit(t, id) ==
    /\ id \in 1..Len(txs)
    /\ txs[id].owner = t /\ txs[id].via \in {"tx", "tx_mut"} /\ txs[id].state = "open"
    /\ \E o \in CommitOutcomes :
        txs' = [txs EXCEPT ![id].commits = @ + 1,
                           ![id].state = IF o = "ok" THEN "committed" ELSE "commit_failed"]
    /\ UNCHANGED <<readOnly, handle, budget, ncalls, call, stats>>

Next ==
    \E t \in Threads :
        \/ \E op \in Ops : Invoke(t, op)
        \/ ArcTx(t)
        \/ ArcTxMut(t)
        \/ RefTx(t)
        \/ RefTxMut(t)
        \/ BaseTx(t)
        \/ BaseTxMut(t)
        \/ CallF(t)
        \/ \E v \in FVals : FReturn(t, v)
        \/ FPanic(t)
        \/ Commit(t)
        \/ \E id \in 1..(MaxCalls * Cardinality(Threads)) : ClientCommit(t, id)

Spec == Init /\ [][Next]_vars

\* ------------------------------------------------------------------ claims
Scoped(c) == c.op \in {"view", "update"}
Returned(c) == c.pc = "returned"
Over(c) == c.pc \in {"returned", "unwound"}
Has(evs, e) == \E i \in 1..Len(evs) : evs[i] = e
Count(evs, e) == Cardinality({i \in 1..Len(evs) : evs[i] = e})
IsPrefix(s, q) == Len(s) <= Len(q) /\ \A i \in 1..Len(s) : s[i] = q[i]
\* the transactions the backend holds for the call c of thread t
TxsOf(t, c) == {i \in 1..Len(txs) : txs[i].owner = t /\ txs[i].seq = c.seq}

\* C1: when opening the read transaction fails, view returns that same open
\* error, the closure is invoked zero times and no commit is invoked.
C1_ViewOpenFailure ==
    \A t \in Threads :
        LET c == call[t] IN
        (c.op = "view" /\ IsErr(c.openRes)) =>
            /\ Returned(c)
            /\ c.ret.tag = "err" /\ c.ret.err = c.openRes.err /\ c.ret.val = "none"
            /\ c.ret.err.kind = "open"
            /\ c.fcount = 0 /\ ~Has(c.events, "f_call")
            /\ c.commitRes = NoResult /\ ~Has(c.events, "commit")
            /\ TxsOf(t, c) = {}

C1_Witness ==
    \E t \in Threads :
        /\ call[t].op = "view" /\ Returned(call[t])
        /\ call[t].openRes = Err(OpenErr("io"))

\* C2: when the open succeeds and the commit fails, view and update return the
\* commit error, and the value the closure returned is in no part of the result.
C2_CommitFailureDiscardsValue ==
    \A t \in Threads :
        LET c == call[t] IN
        (Scoped(c) /\ IsOk(c.openRes) /\ IsErr(c.commitRes)) =>
            /\ Returned(c)
            /\ c.res \in FVals
            /\ c.ret.tag = "err"
            /\ c.ret.err = c.commitRes.err /\ c.ret.err.kind = "commit"
            /\ c.ret.val = "none" /\ c.ret.tx = 0

C2_Witness ==
    \E t, u \in Threads :
        /\ call[t].op = "view" /\ call[t].res = "v1"
        /\ call[t].commitRes = Err(CommitErr("conflict")) /\ Returned(call[t])
        /\ call[u].op = "update" /\ call[u].res = "app_err"
        /\ call[u].commitRes = Err(CommitErr("io")) /\ Returned(call[u])

\* C3: when the open and the commit succeed, view and update return success
\* carrying exactly the value the closure returned.
C3_SuccessReturnsValue ==
    \A t \in Threads :
        LET c == call[t] IN
        (Scoped(c) /\ IsOk(c.openRes) /\ IsOk(c.commitRes)) =>
            /\ Returned(c)
            /\ c.res \in FVals
            /\ c.ret = OkVal(c.res)

C3_Witness ==
    \E t, u \in Threads :
        /\ call[t].op = "view" /\ call[t].res = "app_err"
        /\ IsOk(call[t].commitRes) /\ Returned(call[t])
        /\ call[u].op = "update" /\ call[u].res = "v1"
        /\ IsOk(call[u].commitRes) /\ Returned(call[u])


SameInputs(c, d) ==
    /\ c.op = d.op /\ c.pc = d.pc
    /\ c.openRes.tag = d.openRes.tag /\ c.openRes.err = d.openRes.err
    /\ c.res = d.res /\ c.commitRes = d.commitRes

\* what a call shows: its result (up to the identity of the transaction it
\* hands out), the invocations of the closure and the calls made on the backend
SameBehaviour(c, d) ==
    /\ c.ret.tag = d.ret.tag /\ c.ret.val = d.ret.val /\ c.ret.err = d.ret.err
    /\ (c.ret.tx = 0) = (d.ret.tx = 0)
    /\ (c.ret.tx # 0 /\ d.ret.tx # 0) => txs[c.ret.tx].kind = txs[d.ret.tx].kind
    /\ (c.tx = 0) = (d.tx = 0)
    /\ (c.tx # 0 /\ d.tx # 0) => txs[c.tx].kind = txs[d.tx].kind
    /\ c.fcount = d.fcount
    /\ c.events = d.events

\* C5: a call of view, update, tx or tx_mut on Arc(H) or on &H returns the same
\* result as the same call on H, invokes the closure as many times and makes the
\* same open and commit calls on H, whatever the backend and the closure answer.
C5_DelegationTransparent ==
    \A t, u \in Threads :
        (/\ handle[t] = <<>> /\ Len(handle[u]) = 1
         /\ Over(call[t]) /\ Over(call[u])
         /\ SameInputs(call[t], call[u]))
            => SameBehaviour(call[t], call[u])

C5_Witness ==
    \E t, u \in Threads :
        /\ handle[t] = <<>> /\ handle[u] = <<"Arc">>
        /\ call[t].op = "view" /\ Returned(call[t]) /\ Returned(call[u])
        /\ SameInputs(call[t], call[u])
        /\ call[u].ret = OkVal("v1")

\* the backend method a call of op is to reach
Intended(op) == IF op \in {"view", "tx"} THEN "tx" ELSE "tx_mut"
OpenCalls(evs) == SelectSeq(evs, LAMBDA e : e \in {"tx", "tx_mut"})

\* C6: through wrappers nested to any depth, an open on the outermost wrapper
\* makes exactly one open call of the same kind on H and hands back what H
\* answered, so that a call through nested wrappers behaves as the same call
\* through a single wrapper.
C6_DelegationTransitive ==
    /\ \A t \in Threads :
        LET c == call[t] IN
        (Len(handle[t]) >= 2 /\ c.pc \notin {"idle", "open"}) =>
            /\ c.stack = <<>>
            /\ OpenCalls(c.events) = <<Intended(c.op)>>
            /\ IsOk(c.openRes) =>
                    /\ TxsOf(t, c) = {c.openRes.tx}
                    /\ txs[c.openRes.tx].kind =
                            (IF Intended(c.op) = "tx" THEN "ro" ELSE "rw")
            /\ IsErr(c.openRes) => TxsOf(t, c) = {}
    /\ \A t, u \in Threads :
        (/\ Len(handle[t]) = 1 /\ Len(handle[u]) >= 2
         /\ Over(call[t]) /\ Over(call[u])
         /\ SameInputs(call[t], call[u]))
            => SameBehaviour(call[t], call[u])

C6_Witness ==
    \E t, u \in Threads :
        /\ handle[t] = <<"Arc">> /\ handle[u] = <<"Ref", "Arc">>
        /\ call[t].op = "update" /\ Returned(call[t]) /\ Returned(call[u])
        /\ SameInputs(call[t], call[u])
        /\ call[u].ret = OkVal("v1")

\* C7: on a backend opened read-only, tx_mut returns an open failure, and update
\* returns that very error with no invocation of the closure and no commit.
C7_ReadOnlyUpdate ==
    readOnly =>
        \A t \in Threads :
            LET c == call[t] IN
            (c.op \in {"update", "tx_mut"} /\ c.pc \notin {"idle", "open"}) =>
                /\ Returned(c)
                /\ c.openRes = Err(OpenErr("write_access"))
                /\ c.ret = c.openRes
                /\ c.fcount = 0 /\ ~Has(c.events, "f_call")
                /\ c.commitRes = NoResult /\ ~Has(c.events, "commit")
                /\ TxsOf(t, c) = {}

C7_Witness ==
    /\ readOnly
    /\ \E t \in Threads :
        /\ call[t].op = "update" /\ Returned(call[t])
        /\ call[t].ret = Err(OpenErr("write_access"))

\* the write transactions the update calls of thread t have opened
UpdateTxs(t) == {i \in 1..Len(txs) : txs[i].owner = t /\ txs[i].via = "update"}

\* C8: two update calls made one after the other on the same handle open a
\* write transaction each, run their closure and commit their own transaction:
\* two distinct opens and two commits are seen, and the first transaction is
\* committed before the second is opened.
C8_SequentialUpdates ==
    \A t \in Threads :
        /\ \A i, j \in UpdateTxs(t) :
            i < j =>
                /\ txs[i].seq < txs[j].seq
                /\ txs[i].commits = 1
                /\ txs[i].state \in {"committed", "commit_failed"}
        /\ LET c == call[t] IN
           (c.op = "update" /\ Returned(c) /\ IsOk(c.openRes)) =>
                /\ c.tx \in UpdateTxs(t) /\ txs[c.tx].seq = c.seq
                /\ txs[c.tx].commits = 1
                /\ stats[t].tx_mut >= Cardinality(UpdateTxs(t))
                /\ stats[t].commit >= Cardinality(UpdateTxs(t))
                /\ stats[t].f >= Cardinality(UpdateTxs(t))
                /\ stats[t].tx + stats[t].tx_mut = c.seq

C8_Witness ==
    \E t \in Threads :
        /\ call[t].op = "update" /\ Returned(call[t]) /\ call[t].seq = 2
        /\ UpdateTxs(t) = {1, 2}
        /\ stats[t].tx_mut = 2 /\ stats[t].commit = 2 /\ stats[t].f = 2

\* C10: within one call of view or update the events come in the order open,
\* invocation of the closure, return of the closure, commit, return of the call;
\* the closure runs only while the transaction is open and uncommitted, and
\* commit is never invoked before the closure has returned.
C10_FinalizeAfterCompute ==
    \A t \in Threads :
        LET c == call[t]
            open == Intended(c.op)
        IN  Scoped(c) =>
            /\ \/ IsPrefix(c.events, <<open, "f_call", "f_ret", "commit", "return">>)
               \/ c.events = <<open, "f_call", "panic">>
               \/ c.events = <<open, "return">> /\ IsErr(c.openRes)
            /\ Returned(c) = Has(c.events, "return")
            /\ c.pc = "in_f" =>
                    /\ c.tx \in 1..Len(txs)
                    /\ txs[c.tx].state = "open" /\ txs[c.tx].commits = 0
            /\ (c.tx # 0 /\ txs[c.tx].commits > 0) =>
                    /\ Has(c.events, "f_ret") /\ c.res \in FVals

C10_Witness ==
    \E t, u \in Threads :
        /\ call[t].op = "view"
        /\ call[t].events = <<"tx", "f_call", "f_ret", "commit", "return">>
        /\ call[u].op = "update" /\ call[u].pc = "in_f"
        /\ txs[call[u].tx].state = "open"

\* C11: a value of the closure that denotes failure of the caller's logic is
\* opaque to view and update: the transaction is committed all the same, and on
\* a successful commit that value is returned wrapped as success, as any other.
C11_OpaqueValue ==
    \A t \in Threads :
        LET c == call[t] IN
        (Scoped(c) /\ c.res = "app_err") =>
            /\ c.pc \in {"commit", "returned"}
            /\ c.pc = "commit" => txs[c.tx].state = "open"
            /\ Returned(c) =>
                    /\ c.commitRes # NoResult
                    /\ txs[c.tx].commits = 1
                    /\ txs[c.tx].state \in {"committed", "commit_failed"}
                    /\ Count(c.events, "commit") = 1
                    /\ IsOk(c.commitRes) =>
                            /\ c.ret.tag = "ok" /\ c.ret.val = "app_err"
                            /\ c.ret.err = NoErr
                            /\ txs[c.tx].state = "committed"

C11_Witness ==
    \E t \in Threads :
        /\ call[t].op = "update" /\ Returned(call[t])
        /\ call[t].res = "app_err" /\ call[t].ret = OkVal("app_err")
        /\ txs[call[t].tx].state = "committed"

\* C12: nothing is retried or swallowed: in one call of view or update the open
\* is invoked at most once, the closure at most once and commit at most once;
\* after an open failure or a commit failure the call returns that error with
\* no further open, closure or commit call.
C12_NoRetry ==
    \A t \in Threads :
        LET c == call[t] IN
        Scoped(c) =>
            /\ Len(OpenCalls(c.events)) <= 1
            /\ c.fcount <= 1 /\ Count(c.events, "f_call") = c.fcount
            /\ Count(c.events, "commit") <= 1
            /\ stats[t].tx + stats[t].tx_mut <= c.seq
            /\ stats[t].f <= c.seq /\ stats[t].commit <= c.seq
            /\ c.pc # "open" => Len(OpenCalls(c.events)) = 1
            /\ IsErr(c.openRes) =>
                    /\ Returned(c) /\ c.ret = Err(c.openRes.err)
                    /\ c.events = <<Intended(c.op), "return">>
            /\ IsErr(c.commitRes) =>
                    /\ Returned(c) /\ c.ret = Err(c.commitRes.err)
                    /\ c.events = <<Intended(c.op), "f_call", "f_ret", "commit", "return">>

C12_Witness ==
    \E t, u \in Threads :
        /\ call[t].op = "view" /\ IsErr(call[t].openRes) /\ Returned(call[t])
        /\ call[u].op = "update" /\ IsErr(call[u].commitRes) /\ Returned(call[u])

\* the transactions handed out by a direct call of tx() or tx_mut()
RawTxs == {i \in 1..Len(txs) : txs[i].via \in {"tx", "tx_mut"}}

\* a step leaves transaction i as it is
Untouched(i) == txs'[i] = txs[i]

\* a step is the commit of transaction i itself, by the thread that holds it
CommittedItself(i) ==
    /\ txs'[i].commits = txs[i].commits + 1
    /\ txs'[i].state \in {"committed", "commit_failed"}
    /\ call' = call /\ stats' = stats

\* C13: the interface cleans nothing up: a transaction obtained by calling tx()
\* or tx_mut() directly stays open through every later operation on the handle
\* (opens, view calls, update calls, commits of other transactions) until commit
\* is invoked on that very transaction.
C13_NoImplicitCleanup ==
    [][\A i \in RawTxs :
            txs[i].state = "open" =>
                /\ i \in 1..Len(txs')
                /\ Untouched(i) \/ CommittedItself(i)]_vars

\* a transaction from tx() is still open although its holder has since gone
\* through a whole later call that opened and committed another transaction
C13_Witness ==
    \E i \in RawTxs :
        LET c == call[txs[i].owner] IN
        /\ txs[i].state = "open" /\ txs[i].commits = 0
        /\ Scoped(c) /\ Returned(c) /\ c.seq > txs[i].seq
        /\ c.tx > i /\ txs[c.tx].state = "committed"

\* the transaction a call of view or update works on is the one it opened
OwnTx(t) ==
    LET c == call[t] IN
    (Scoped(c) /\ c.pc \in {"call_f", "in_f", "commit", "returned", "unwound"}
               /\ IsOk(c.openRes)) =>
        /\ c.tx \in 1..Len(txs)
        /\ c.tx = c.openRes.tx
        /\ txs[c.tx].owner = t /\ txs[c.tx].seq = c.seq /\ txs[c.tx].via = c.op
        /\ \A u \in Threads \ {t} : call[u].tx # c.tx
        /\ Returned(c) => txs[c.tx].commits = 1

\* a step in which view or update of thread t invokes commit touches the
\* transaction of that call and no other
CommitsOwn(t) ==
    (call[t].pc = "commit" /\ call'[t].pc = "returned") =>
        /\ txs'[call[t].tx].commits = txs[call[t].tx].commits + 1
        /\ \A i \in 1..Len(txs) : i # call[t].tx => txs'[i] = txs[i]

\* a step changes a transaction opened by view or update only if it is a step
\* of the call that opened it
OnlyOwnerActs(i) ==
    (txs[i].via \in {"view", "update"} /\ txs'[i] # txs[i]) =>
        LET t == txs[i].owner IN
        /\ call[t].tx = i /\ call[t].seq = txs[i].seq
        /\ call'[t] # call[t]
        /\ \A u \in Threads \ {t} : call'[u] = call[u]

\* C14: in every interleaving of view / update calls made concurrently by
\* different threads on one shared backend, each call hands to its closure and
\* commits only the transaction it opened itself, each such transaction is
\* committed exactly once, and no call commits or uses a transaction that
\* another call opened.
C14_ExclusiveOwnership ==
    /\ [](\A t \in Threads : OwnTx(t))
    /\ [][/\ \A t \in Threads : CommitsOwn(t)
          /\ \A i \in 1..Len(txs) : OnlyOwnerActs(i)]_vars

\* both threads are inside their closures at once, each on its own transaction,
\* the one that opened second being the first to commit
C14_Witness ==
    /\ call["t1"].op = "update" /\ call["t1"].pc = "in_f" /\ call["t1"].tx = 1
    /\ call["t2"].op = "update" /\ Returned(call["t2"]) /\ call["t2"].tx = 2
    /\ txs[1].state = "open" /\ txs[2].state = "committed"

WriteTxs(q) == {i \in 1..Len(q) : q[i].kind = "rw"}

\* the open calls a call of view or update has made are of its own kind
KindMatches(t) ==
    LET c == call[t] IN
    /\ c.op = "view" =>
            /\ c.method = "tx" /\ ~Has(c.events, "tx_mut")
            /\ c.tx # 0 => txs[c.tx].kind = "ro"
    /\ c.op = "update" =>
            /\ c.method = "tx_mut" /\ ~Has(c.events, "tx")
            /\ c.tx # 0 => txs[c.tx].kind = "rw"

\* a step of a view call of thread t opens no write transaction
ViewStepOpensNoWrite(t) ==
    (call[t].op = "view" /\ call'[t].op = "view" /\ call'[t] # call[t]) =>
        /\ stats'[t].tx_mut = stats[t].tx_mut
        /\ WriteTxs(txs') = WriteTxs(txs)

\* C15: view only ever opens a read transaction and never calls tx_mut, update
\* only ever opens a write transaction and never calls tx; a view call is not
\* affected by tx_mut being bound to fail and leaves the count of opened write
\* transactions unchanged.
C15_KindMatchesHelper ==
    /\ [](\A t \in Threads : KindMatches(t))
    /\ [](\A i \in 1..Len(txs) :
            /\ txs[i].via = "view" => txs[i].kind = "ro"
            /\ txs[i].via = "update" => txs[i].kind = "rw")
    /\ [][\A t \in Threads : ViewStepOpensNoWrite(t)]_vars

\* on a backend without write access a view call through a wrapper went through
\* while the thread's earlier update failed on the open
C15_Witness ==
    /\ readOnly
    /\ \E t \in Threads :
        /\ call[t].op = "view" /\ call[t].seq = 2 /\ Returned(call[t])
        /\ call[t].ret = OkVal("v1")
        /\ handle[t] # <<>>
        /\ stats[t].tx_mut = 1 /\ stats[t].tx = 1
        /\ WriteTxs(txs) = {}

\* C16: when the closure does not return but panics while the transaction is
\* open, view / update never invokes commit on that transaction and produces no
\* result value; the only commit of a helper is the one after the closure's
\* return.
C16_PanicSkipsCommit ==
    /\ [](\A t \in Threads :
            LET c == call[t] IN
            /\ c.pc = "unwound" =>
                    /\ Scoped(c) /\ c.fcount = 1
                    /\ c.res = "none" /\ c.commitRes = NoResult /\ c.ret = NoResult
                    /\ ~Has(c.events, "commit") /\ ~Has(c.events, "return")
                    /\ txs[c.tx].commits = 0 /\ txs[c.tx].state # "committed"
            /\ (Scoped(c) /\ Has(c.events, "commit")) =>
                    /\ Has(c.events, "f_ret") /\ ~Has(c.events, "panic")
                    /\ c.res \in FVals)
    /\ [][\A t \in Threads :
            call[t].pc = "unwound" =>
                /\ call'[t] = call[t]
                /\ stats'[t] = stats[t]
                /\ txs'[call[t].tx] = txs[call[t].tx]]_vars

\* one call has unwound from a panic with its transaction never committed
\* while the other thread's call has committed its own and returned
C16_Witness ==
    \E t, u \in Threads :
        /\ call[t].op = "update" /\ call[t].pc = "unwound"
        /\ txs[call[t].tx].commits = 0
        /\ call[u].op = "view" /\ Returned(call[u]) /\ IsOk(call[u].commitRes)

====
